---- MODULE Spec2Model ----
(***************************************************************************)
(* Echo chat: the server-side connection/session manager.                  *)
(*                                                                         *)
(* The repository holds several servers that implement the same handshake  *)
(* and registry:                                                           *)
(*   "ws"   src/server/server.js           (ws library, hasUsername flag)   *)
(*   "io"   src/unnamed/part_005 1-237     (Socket.IO, usernameSet flag)    *)
(*   "ws2"  src/unnamed/part_005 238-312   (ws library, ws.once handler)    *)
(*   "auth" the password server the client src/client/chat.go talks to;    *)
(*          its source is not among the files, it is modelled from spec.md  *)
(* The variable  server  says which program is running; each program has   *)
(* its own actions.  Node.js runs one event handler at a time to its end,  *)
(* so every handler is one atomic action.                                  *)
(***************************************************************************)
EXTENDS Integers, Sequences, FiniteSets, TLC

VARIABLES
  server,      \* which server program runs
  readyState,  \* per connection: "NONE" | "OPEN" | "CLOSING" | "CLOSED"
  phase,       \* per connection: "AwaitingCredentials" | "Authenticated" | "Rejected" | "Closed"
  clients,     \* the connection -> username map (a partial function)
  users,       \* the credential store: username -> [passwordHash, isOnline]
  rejected,    \* per connection: whether a handshake on it was answered with an error
  sent,        \* per connection: frames the last handler sent to it
  persisted,   \* message records the last handler wrote
  last,        \* the last event handled
  credentials, \* history: open connection -> the username and password it authenticated with
  pending,     \* connection -> the credentials whose lookup found no record, create not yet run
  listening,   \* whether the server accepts new connections
  process,     \* "up", the shutdown signal being handled ("SIGINT" | "SIGTERM"), or "exited"
  tui,         \* the TUI client: its view, m.conn, its connections and its commands in flight
  departed     \* history: the usernames and passwords of the sessions that have closed

vars == <<server, readyState, phase, clients, users, rejected,
          sent, persisted, last, credentials, pending, listening, process,
          tui, departed>>

(***************************************************************************)
(* Bounds                                                                  *)
(***************************************************************************)
NumConns == 3

\* Sends of the TUI client that may be in flight at once
MaxSends == 1

Conns == 1..NumConns

\* Text is a sequence of characters; " " stands for any whitespace character.
\* The texts a client sends: empty, blank, a name with surrounding whitespace
\* and a name that differs from it in case only.
Texts ==
  { <<>>, <<" ">>, <<" ", "a", " ">>, <<"A">> }

\* The lines a client sends as chat: a blank one and one with text
Lines == { <<" ">>, <<" ", "a">> }

(***************************************************************************)
(* String helpers                                                          *)
(***************************************************************************)
IsSpace(ch) == ch = " "

RECURSIVE TrimLeft(_)
TrimLeft(s) ==
  IF s = <<>> THEN s
  ELSE IF IsSpace(Head(s)) THEN TrimLeft(Tail(s)) ELSE s

RECURSIVE TrimRight(_)
TrimRight(s) ==
  IF s = <<>> THEN s
  ELSE IF IsSpace(s[Len(s)]) THEN TrimRight(SubSeq(s, 1, Len(s) - 1)) ELSE s

\* String.prototype.trim
Trim(s) == TrimRight(TrimLeft(s))

\* Case folding of the letters that occur in the texts of the model
Lower(ch) ==
  CASE ch = "A" -> "a"
    [] ch = "B" -> "b"
    [] ch = "E" -> "e"
    [] ch = "H" -> "h"
    [] ch = "I" -> "i"
    [] ch = "P" -> "p"
    [] ch = "R" -> "r"
    [] ch = "S" -> "s"
    [] ch = "W" -> "w"
    [] OTHER -> ch

LowerText(s) == [i \in 1..Len(s) |-> Lower(s[i])]

StartsWith(s, prefix) ==
  Len(s) >= Len(prefix) /\ SubSeq(s, 1, Len(prefix)) = prefix

Drop(s, n) == SubSeq(s, n + 1, Len(s))

\* the leading characters of s up to the first whitespace
RECURSIVE Token(_)
Token(s) ==
  IF s = <<>> \/ IsSpace(Head(s)) THEN <<>> ELSE <<Head(s)>> \o Token(Tail(s))

(***************************************************************************)
(* Map helpers (JavaScript Map)                                            *)
(***************************************************************************)
MapHas(m, k) == k \in DOMAIN m
MapSet(m, k, v) == [x \in DOMAIN m \cup {k} |-> IF x = k THEN v ELSE m[x]]
MapDelete(m, k) == [x \in DOMAIN m \ {k} |-> m[x]]
MapValues(m) == {m[k] : k \in DOMAIN m}
EmptyMap == [x \in {} |-> <<>>]

\* JavaScript truthiness of a map lookup of a string value: absent (undefined)
\* and the empty string are falsy.
Truthy(m, k) == MapHas(m, k) /\ m[k] # <<>>

(***************************************************************************)
(* Frames                                                                  *)
(***************************************************************************)
\* An inbound frame.  event is the Socket.IO event name ("message" for a
\* plain WebSocket text frame); json says whether the payload is a structured
\* object, whose fields may be missing.
TextFrame(s) ==
  [event |-> "message", json |-> FALSE, text |-> s,
   hasUsername |-> FALSE, username |-> <<>>,
   hasPassword |-> FALSE, password |-> <<>>]

NoFrame == TextFrame(<<>>)

\* A structured payload {username, password}; either field may be missing.
JsonFrame(event, hasU, u, hasP, p) ==
  [event |-> event, json |-> TRUE, text |-> <<>>,
   hasUsername |-> hasU, username |-> u,
   hasPassword |-> hasP, password |-> p]

\* A Socket.IO event whose payload is a plain string
IoText(event, s) ==
  [event |-> event, json |-> FALSE, text |-> s,
   hasUsername |-> FALSE, username |-> <<>>,
   hasPassword |-> FALSE, password |-> <<>>]

\* An outbound frame: kind classifies it, head is the literal text the frame
\* begins with ("" when it begins with a variable part), user and body are its
\* variable parts.
Out(kind, head, user, body) ==
  [kind |-> kind, head |-> head, user |-> user, body |-> body]

Nothing == [c \in Conns |-> <<>>]
To(targets, frame) == [c \in Conns |-> IF c \in targets THEN <<frame>> ELSE <<>>]
Then(s1, s2) == [c \in Conns |-> s1[c] \o s2[c]]

\* History: what connection c authenticated with (the password is <<>> on the
\* servers that take none)
Remember(c, name, password) ==
  credentials' = MapSet(credentials, c, [username |-> name, password |-> password])

\* A closed connection handles no further event: its handshake flags are dead
Forget(c) ==
  /\ phase' = [phase EXCEPT ![c] = "Closed"]
  /\ rejected' = [rejected EXCEPT ![c] = FALSE]
  /\ credentials' = MapDelete(credentials, c)
  /\ departed' = IF MapHas(credentials, c) THEN departed \cup {credentials[c]} ELSE departed

\* What a client types on a connection: a name first, chat lines afterwards
Inputs(c) == IF phase[c] = "Authenticated" THEN Lines ELSE Texts

\* A new connection gets the next unused identity
NextConn(c) == readyState[c] = "NONE" /\ \A d \in Conns : d < c => readyState[d] # "NONE"

\* create says what a create of the Credential Store did in the step, if one ran
CreateEvent(c, frame, outcome, create) ==
  [ev |-> "message", conn |-> c, frame |-> frame, cred |-> TRUE,
   outcome |-> outcome, create |-> create, log |-> "none"]

Event(ev, c, frame, cred, outcome) ==
  [ev |-> ev, conn |-> c, frame |-> frame, cred |-> cred, outcome |-> outcome,
   create |-> "none", log |-> "none"]

(***************************************************************************)
(* server.js ("ws")                                                        *)
(***************************************************************************)
\* wss.clients filtered by readyState === OPEN, under the ready states rs
WsOpenClients(rs) == {c \in Conns : rs[c] = "OPEN"}

\* Mutant of WsBroadcast: the loop ends at the first client whose write fails
\* (wss.clients is iterated in the order the connections were accepted)
WsBroadcastUntilFailure(rs, message, failed) ==
  To({c \in WsOpenClients(rs) : \A f \in failed : c < f}, message)

\* Mutant of WsBroadcast: the loop runs over wss.clients and then over the
\* clients map as well
WsBroadcastBothSets(rs, message, failed) ==
  Then(To(WsOpenClients(rs) \ failed, message),
       To((DOMAIN clients \cap WsOpenClients(rs)) \ failed, message))

\* broadcast: client.send for every open client; the write to the clients in
\* failed fails, which send reports to no one
WsBroadcast(rs, message, failed) == To(WsOpenClients(rs) \ failed, message)

\* A socket whose write failed is torn down: CLOSING until its close event
Broken(rs, failed) == [c \in Conns |-> IF c \in failed THEN "CLOSING" ELSE rs[c]]

\* The writes that may fail in one handler: none, or the one to some client
Failures == {{}} \cup {{c} : c \in Conns}

WsConnection(c) ==
  /\ server = "ws"
  /\ listening
  /\ NextConn(c)
  /\ readyState' = [readyState EXCEPT ![c] = "OPEN"]
  /\ phase' = [phase EXCEPT ![c] = "AwaitingCredentials"]
  /\ sent' = Nothing
  /\ persisted' = <<>>
  /\ last' = Event("connection", c, NoFrame, FALSE, "accepted")
  /\ UNCHANGED <<server, tui, process, pending, listening, departed, clients, users, rejected, credentials>>

WsEmptyUsername(c, data, failed) ==
  /\ failed \subseteq {c}
  /\ sent' = To({c} \ failed, Out("error", "Error:", <<>>,
                         "Username cannot be empty. Please send a valid username."))
  /\ rejected' = [rejected EXCEPT ![c] = TRUE]
  /\ last' = Event("message", c, data, TRUE, "rejected")
  /\ UNCHANGED <<clients, phase, credentials>>

WsRegister(c, data, username, failed) ==
  /\ failed \subseteq WsOpenClients(readyState)
  /\ clients' = MapSet(clients, c, username)
  /\ phase' = [phase EXCEPT ![c] = "Authenticated"]
  /\ sent' = WsBroadcast(readyState, Out("join", "", username, " has joined"), failed)
  /\ last' = Event("message", c, data, TRUE, "registered")
  /\ Remember(c, username, <<>>)
  /\ UNCHANGED rejected

\* Mutant of WsSubsequent: the frame is stored as the connection's username
WsSubsequentRenames(c, data, failed) ==
  /\ failed = {}
  /\ sent' = Nothing
  /\ last' = Event("message", c, data, FALSE, "logged")
  /\ clients' = MapSet(clients, c, Trim(data.text))
  /\ UNCHANGED <<phase, rejected, credentials>>

WsSubsequent(c, data, failed) ==
  /\ failed = {}
  /\ sent' = Nothing
  /\ last' = Event("message", c, data, FALSE, "logged")
  /\ UNCHANGED <<clients, phase, rejected, credentials>>

WsMessage(c, data, failed) ==
  /\ server = "ws"
  /\ readyState[c] = "OPEN"
  /\ LET message == Trim(data.text)
     IN  IF phase[c] # "Authenticated"
         THEN IF Len(message) = 0
              THEN WsEmptyUsername(c, data, failed)
              ELSE WsRegister(c, data, message, failed)
         ELSE WsSubsequent(c, data, failed)
  /\ readyState' = Broken(readyState, failed)
  /\ persisted' = <<>>
  /\ UNCHANGED <<server, tui, process, pending, listening, departed, users>>

\* Mutant of WsClose: the leave notice is broadcast without the username test
WsCloseAlwaysAnnounces(c, failed) ==
  /\ server = "ws"
  /\ readyState[c] \in {"OPEN", "CLOSING"}
  /\ LET rs == [readyState EXCEPT ![c] = "CLOSED"]
         username == IF MapHas(clients, c) THEN clients[c] ELSE <<>>
     IN  /\ readyState' = Broken(rs, failed)
         /\ failed \subseteq WsOpenClients(rs)
         /\ sent' = WsBroadcast(rs, Out("leave", "", username, " has disconnected"), failed)
         /\ clients' = MapDelete(clients, c)
         /\ last' = Event("close", c, NoFrame, FALSE,
                          IF Truthy(clients, c) THEN "left" ELSE "anonymous")
  /\ Forget(c)
  /\ persisted' = <<>>
  /\ UNCHANGED <<server, tui, process, pending, listening, users>>

WsClose(c, failed) ==
  /\ server = "ws"
  /\ readyState[c] \in {"OPEN", "CLOSING"}
  /\ LET rs == [readyState EXCEPT ![c] = "CLOSED"]
     IN  /\ readyState' = Broken(rs, failed)
         /\ IF Truthy(clients, c)
            THEN /\ failed \subseteq WsOpenClients(rs)
                 /\ sent' = WsBroadcast(rs, Out("leave", "", clients[c], " has disconnected"),
                                        failed)
                 /\ clients' = MapDelete(clients, c)
                 /\ last' = Event("close", c, NoFrame, FALSE, "left")
            ELSE /\ failed = {}
                 /\ sent' = Nothing
                 /\ clients' = clients
                 /\ last' = Event("close", c, NoFrame, FALSE, "anonymous")
  /\ Forget(c)
  /\ persisted' = <<>>
  /\ UNCHANGED <<server, tui, process, pending, listening, users>>

\* ws.on('error'): the error is logged; the library tears the socket down and
\* emits close afterwards
WsError(c) ==
  /\ server = "ws"
  /\ readyState[c] \in {"OPEN", "CLOSING"}
  /\ readyState' = [readyState EXCEPT ![c] = "CLOSING"]
  /\ sent' = Nothing
  /\ persisted' = <<>>
  /\ last' = Event("error", c, NoFrame, FALSE, "logged")
  /\ UNCHANGED <<server, tui, process, pending, listening, departed, phase, clients, users, rejected,
                 credentials>>

\* Mutant of Closing: no close is started, the clients stay open
ClosingNone(rs) == rs

\* client.close() for every client of wss.clients: the closing handshake starts
Closing(rs) == [c \in Conns |-> IF rs[c] = "OPEN" THEN "CLOSING" ELSE rs[c]]

\* process.on('SIGINT'): notice, close every client, close the server
WsSigint ==
  /\ server = "ws"
  /\ listening
  /\ sent' = WsBroadcast(readyState, Out("shutdown", "Server is shutting down...", <<>>, <<>>), {})
  /\ readyState' = Closing(readyState)
  /\ listening' = FALSE
  /\ process' = "SIGINT"
  /\ persisted' = <<>>
  /\ last' = Event("shutdown", 0, NoFrame, FALSE, "SIGINT")
  /\ UNCHANGED <<server, tui, pending, departed, phase, clients, users, rejected, credentials>>

\* What is left of the connections when the process is gone
Gone(rs) == [c \in Conns |-> IF rs[c] = "NONE" THEN "NONE" ELSE "CLOSED"]

\* The callback of wss.close(): every connection has closed, process.exit(0)
WsExit ==
  /\ server = "ws"
  /\ process = "SIGINT"
  /\ \A c \in Conns : readyState[c] \in {"NONE", "CLOSED"}
  /\ process' = "exited"
  /\ sent' = Nothing
  /\ persisted' = <<>>
  /\ last' = Event("exit", 0, NoFrame, FALSE, "closed")
  /\ UNCHANGED <<server, tui, pending, listening, departed, readyState, phase, clients, users,
                 rejected, credentials>>

NextWs ==
  \/ WsSigint
  \/ WsExit
  \/ \E c \in Conns : WsConnection(c)
  \/ \E c \in Conns, failed \in Failures :
        \E s \in Inputs(c) : WsMessage(c, TextFrame(s), failed)
  \/ \E c \in Conns, failed \in Failures : WsClose(c, failed)
  \/ \E c \in Conns : WsError(c)

(***************************************************************************)
(* The Socket.IO server ("io")                                             *)
(***************************************************************************)
\* the sockets connected to the namespace
IoSockets(rs) == {c \in Conns : rs[c] = "OPEN"}

\* io.emit
IoEmitAll(rs, frame) == To(IoSockets(rs), frame)
\* socket.broadcast.emit: every connected socket but this one
IoBroadcast(rs, c, frame) == To(IoSockets(rs) \ {c}, frame)
\* socket.emit
IoEmit(c, frame) == To({c}, frame)

IoError(message) == Out("error", "error", <<>>, message)

IoConnection(c) ==
  /\ server = "io"
  /\ listening
  /\ NextConn(c)
  /\ readyState' = [readyState EXCEPT ![c] = "OPEN"]
  /\ phase' = [phase EXCEPT ![c] = "AwaitingCredentials"]
  /\ sent' = Nothing
  /\ persisted' = <<>>
  /\ last' = Event("connection", c, NoFrame, FALSE, "accepted")
  /\ UNCHANGED <<server, tui, process, pending, listening, departed, clients, users, rejected, credentials>>

\* const username = data.username || data, and the validation of line 106:
\* the value is usable when it is a string that is not blank.
IoUsernameIsString(data) ==
  IF data.json THEN data.hasUsername /\ data.username # <<>> ELSE TRUE

IoUsername(data) == IF data.json THEN data.username ELSE data.text

IoInvalidUsername(data) ==
  \/ ~IoUsernameIsString(data)
  \/ IoUsername(data) = <<>>
  \/ Trim(IoUsername(data)) = <<>>

IoUsernameTaken(trimmedUsername) == trimmedUsername \in MapValues(clients)

IoRegisterUsername(c, data) ==
  /\ server = "io"
  /\ readyState[c] = "OPEN"
  /\ data.event = "register-username"
  /\ IF phase[c] = "Authenticated"
     THEN /\ sent' = IoEmit(c, IoError("Username already set for this connection"))
          /\ last' = Event("message", c, data, FALSE, "already set")
          /\ UNCHANGED <<clients, phase, rejected, credentials>>
     ELSE IF IoInvalidUsername(data)
     THEN /\ sent' = IoEmit(c, IoError("Invalid username provided"))
          /\ rejected' = [rejected EXCEPT ![c] = TRUE]
          /\ last' = Event("message", c, data, TRUE, "rejected")
          /\ UNCHANGED <<clients, phase, credentials>>
     ELSE IF IoUsernameTaken(Trim(IoUsername(data)))
     THEN /\ sent' = IoEmit(c, IoError("Username already taken"))
          /\ rejected' = [rejected EXCEPT ![c] = TRUE]
          /\ last' = Event("message", c, data, TRUE, "rejected")
          /\ UNCHANGED <<clients, phase, credentials>>
     ELSE LET trimmedUsername == Trim(IoUsername(data))
              registry == MapSet(clients, c, trimmedUsername)
          IN  /\ clients' = registry
              /\ phase' = [phase EXCEPT ![c] = "Authenticated"]
              /\ sent' = Then(Then(
                   IoEmit(c, Out("welcome", "registration-success", trimmedUsername, <<>>)),
                   IoBroadcast(readyState, c,
                               Out("join", "user-joined", trimmedUsername, " has joined the chat"))),
                   IoEmit(c, Out("list", "user-list", <<>>, <<>>)))
              /\ last' = Event("message", c, data, TRUE, "registered")
              /\ Remember(c, trimmedUsername, <<>>)
              /\ UNCHANGED rejected
  /\ persisted' = <<>>
  /\ UNCHANGED <<server, tui, process, pending, listening, departed, readyState, users>>

\* Mutant of IoMessage: the check of line 149 is missing
IoMessageUnchecked(c, data) ==
  /\ server = "io"
  /\ readyState[c] = "OPEN"
  /\ data.event = "message"
  /\ sent' = IoEmitAll(readyState,
                       Out("chat", "message",
                           IF MapHas(clients, c) THEN clients[c] ELSE <<>>, data.text))
  /\ last' = Event("message", c, data, FALSE, "routed")
  /\ persisted' = <<>>
  /\ UNCHANGED <<server, tui, process, pending, listening, departed, readyState, phase, clients, users, rejected, credentials>>

IoMessage(c, data) ==
  /\ server = "io"
  /\ readyState[c] = "OPEN"
  /\ data.event = "message"
  /\ IF ~Truthy(clients, c)
     THEN /\ sent' = IoEmit(c, IoError("Please register a username first"))
          /\ last' = Event("message", c, data, FALSE, "unregistered")
     ELSE /\ sent' = IoEmitAll(readyState, Out("chat", "message", clients[c], data.text))
          /\ last' = Event("message", c, data, FALSE, "routed")
  /\ persisted' = <<>>
  /\ UNCHANGED <<server, tui, process, pending, listening, departed, readyState, phase, clients, users, rejected, credentials>>

\* Mutant of IoDisconnect: connectedUsers.delete is missing
IoDisconnectKeepsEntry(c) ==
  /\ server = "io"
  /\ readyState[c] = "OPEN"
  /\ LET rs == [readyState EXCEPT ![c] = "CLOSED"]
     IN  /\ readyState' = rs
         /\ IF Truthy(clients, c)
            THEN /\ sent' = IoBroadcast(rs, c,
                              Out("leave", "user-left", clients[c], " has left the chat"))
                 /\ last' = Event("close", c, NoFrame, FALSE, "left")
            ELSE /\ sent' = Nothing
                 /\ last' = Event("close", c, NoFrame, FALSE, "anonymous")
  /\ Forget(c)
  /\ persisted' = <<>>
  /\ UNCHANGED <<server, tui, process, pending, listening, clients, users>>

IoDisconnect(c) ==
  /\ server = "io"
  /\ readyState[c] = "OPEN"
  /\ LET rs == [readyState EXCEPT ![c] = "CLOSED"]
     IN  /\ readyState' = rs
         /\ IF Truthy(clients, c)
            THEN /\ clients' = MapDelete(clients, c)
                 /\ sent' = IoBroadcast(rs, c,
                              Out("leave", "user-left", clients[c], " has left the chat"))
                 /\ last' = Event("close", c, NoFrame, FALSE, "left")
            ELSE /\ sent' = Nothing
                 /\ clients' = clients
                 /\ last' = Event("close", c, NoFrame, FALSE, "anonymous")
  /\ Forget(c)
  /\ persisted' = <<>>
  /\ UNCHANGED <<server, tui, process, pending, listening, users>>

\* process.on('SIGINT'): server-shutdown to every socket, then server.close(),
\* which stops the listener and leaves the open sockets as they are
IoSigint ==
  /\ server = "io"
  /\ listening
  /\ sent' = IoEmitAll(readyState, Out("shutdown", "server-shutdown", <<>>,
                                       "Server is shutting down"))
  /\ listening' = FALSE
  /\ process' = "SIGINT"
  /\ persisted' = <<>>
  /\ last' = Event("shutdown", 0, NoFrame, FALSE, "SIGINT")
  /\ UNCHANGED <<server, tui, pending, departed, readyState, phase, clients, users, rejected,
                 credentials>>

\* process.on('SIGTERM'): server.close() only
IoSigterm ==
  /\ server = "io"
  /\ listening
  /\ sent' = Nothing
  /\ listening' = FALSE
  /\ process' = "SIGTERM"
  /\ persisted' = <<>>
  /\ last' = Event("shutdown", 0, NoFrame, FALSE, "SIGTERM")
  /\ UNCHANGED <<server, tui, pending, departed, readyState, phase, clients, users, rejected,
                 credentials>>

\* The callback of server.close(): it runs once the listener has stopped and
\* no connection is left, and ends the process
IoExit ==
  /\ server = "io"
  /\ process \in {"SIGINT", "SIGTERM"}
  /\ \A c \in Conns : readyState[c] \in {"NONE", "CLOSED"}
  /\ process' = "exited"
  /\ sent' = Nothing
  /\ persisted' = <<>>
  /\ last' = Event("exit", 0, NoFrame, FALSE, "closed")
  /\ UNCHANGED <<server, tui, pending, listening, departed, readyState, phase, clients, users,
                 rejected, credentials>>

\* The setTimeout of the SIGINT handler: process.exit(1) after 5000 ms,
\* whatever is still connected
IoForcedExit ==
  /\ server = "io"
  /\ process = "SIGINT"
  /\ process' = "exited"
  /\ readyState' = Gone(readyState)
  /\ sent' = Nothing
  /\ persisted' = <<>>
  /\ last' = Event("exit", 0, NoFrame, FALSE, "forced")
  /\ UNCHANGED <<server, tui, pending, listening, departed, phase, clients, users, rejected,
                 credentials>>

\* What a Socket.IO client sends as the payload of register-username: a plain
\* string, an object with a username, or an object without one.
IoRegisterFrames ==
  {IoText("register-username", s) : s \in Texts}
    \cup {JsonFrame("register-username", TRUE, s, FALSE, <<>>) : s \in {<<>>, <<"a">>}}
    \cup {JsonFrame("register-username", FALSE, <<>>, FALSE, <<>>)}

\* A second register-username is refused before its payload is read
IoInputs(c) ==
  IF phase[c] = "Authenticated"
  THEN {IoText("register-username", <<"A">>)}
  ELSE IoRegisterFrames

NextIo ==
  \/ IoSigint
  \/ IoSigterm
  \/ IoExit
  \/ IoForcedExit
  \/ \E c \in Conns : IoConnection(c)
  \/ \E c \in Conns : \E f \in IoInputs(c) : IoRegisterUsername(c, f)
  \/ \E c \in Conns, s \in Lines : IoMessage(c, IoText("message", s))
  \/ \E c \in Conns : IoDisconnect(c)

(***************************************************************************)
(* The second ws server ("ws2")                                            *)
(***************************************************************************)
\* wss.clients.forEach with the readyState test; the writes to failed fail
Ws2Broadcast(rs, message, failed) ==
  To({c \in Conns : rs[c] = "OPEN"} \ failed, message)

Ws2Connection(c) ==
  /\ server = "ws2"
  /\ listening
  /\ NextConn(c)
  /\ readyState' = [readyState EXCEPT ![c] = "OPEN"]
  /\ phase' = [phase EXCEPT ![c] = "AwaitingCredentials"]
  /\ sent' = Nothing
  /\ persisted' = <<>>
  /\ last' = Event("connection", c, NoFrame, FALSE, "accepted")
  /\ UNCHANGED <<server, tui, process, pending, listening, departed, clients, users, rejected, credentials>>

\* the ws.once("message") listener: the first frame
Ws2First(c, data, failed) ==
  LET username == Trim(data.text)
  IN  /\ clients' = MapSet(clients, c, username)
      /\ sent' = Ws2Broadcast(readyState, Out("join", "", username, " joined"), failed)
      /\ phase' = [phase EXCEPT ![c] = "Authenticated"]
      /\ last' = Event("message", c, data, TRUE, "registered")
      /\ Remember(c, username, <<>>)

\* the ws.on("message") listener the first frame installs
Ws2Chat(c, data, failed) ==
  LET text == Trim(data.text)
      user == clients[c]
  IN  /\ sent' = Ws2Broadcast(readyState, Out("chat", "", user, text), failed)
      /\ last' = Event("message", c, data, FALSE, "routed")
      /\ UNCHANGED <<clients, phase, credentials>>

Ws2Message(c, data, failed) ==
  /\ server = "ws2"
  /\ readyState[c] = "OPEN"
  /\ failed \subseteq {d \in Conns : readyState[d] = "OPEN"}
  /\ IF phase[c] = "AwaitingCredentials"
     THEN Ws2First(c, data, failed)
     ELSE Ws2Chat(c, data, failed)
  /\ readyState' = Broken(readyState, failed)
  /\ persisted' = <<>>
  /\ UNCHANGED <<server, tui, process, pending, listening, departed, users, rejected>>

Ws2Close(c, failed) ==
  /\ server = "ws2"
  /\ readyState[c] \in {"OPEN", "CLOSING"}
  /\ LET rs == [readyState EXCEPT ![c] = "CLOSED"]
     IN  /\ readyState' = Broken(rs, failed)
         /\ IF Truthy(clients, c)
            THEN /\ failed \subseteq {d \in Conns : rs[d] = "OPEN"}
                 /\ sent' = Ws2Broadcast(rs, Out("leave", "", clients[c], " left"), failed)
                 /\ clients' = MapDelete(clients, c)
                 /\ last' = Event("close", c, NoFrame, FALSE, "left")
            ELSE /\ failed = {}
                 /\ sent' = Nothing
                 /\ clients' = clients
                 /\ last' = Event("close", c, NoFrame, FALSE, "anonymous")
  /\ Forget(c)
  /\ persisted' = <<>>
  /\ UNCHANGED <<server, tui, process, pending, listening, users>>

NextWs2 ==
  \/ \E c \in Conns : Ws2Connection(c)
  \/ \E c \in Conns, failed \in Failures :
        \E s \in Inputs(c) : Ws2Message(c, TextFrame(s), failed)
  \/ \E c \in Conns, failed \in Failures : Ws2Close(c, failed)

(***************************************************************************)
(* The password server ("auth"), from spec.md sections 3 to 5              *)
(***************************************************************************)
Passwords == { <<"p">>, <<"q">> }

\* A one-way hash: the store keeps Hash(password), never the password.
Hash(password) == <<"$">> \o password
VerifyPassword(password, passwordHash) == Hash(password) = passwordHash

\* Credential Store
\* Mutant of CreateUser: the record keeps what it is given with the hash marker
\* stripped, that is, the password itself
CreateUserPlaintext(store, name, passwordHash) ==
  MapSet(store, name, [passwordHash |-> Tail(passwordHash), isOnline |-> FALSE,
                       copies |-> 1])

\* store[name] is the record findByUsername returns; copies counts the records
\* the store holds under the name
CreateUser(store, name, passwordHash) ==
  MapSet(store, name,
         [passwordHash |-> passwordHash, isOnline |-> FALSE,
          copies |-> (IF MapHas(store, name) THEN store[name].copies ELSE 0) + 1])

\* Mutant of CreateFails: create never reports DuplicateUser
CreateNeverFails(store, name) == FALSE

\* create fails with DuplicateUser when a record of the name exists by now
CreateFails(store, name) == MapHas(store, name)
SetOnline(store, name, online) ==
  IF MapHas(store, name)
  THEN [store EXCEPT ![name] = [@ EXCEPT !.isOnline = online]]
  ELSE store

\* Session Registry: the live sessions under the ready states rs
LiveSessions(registry, rs) == {c \in DOMAIN registry : rs[c] = "OPEN"}

AuthConnection(c) ==
  /\ server = "auth"
  /\ listening
  /\ NextConn(c)
  /\ readyState' = [readyState EXCEPT ![c] = "OPEN"]
  /\ phase' = [phase EXCEPT ![c] = "AwaitingCredentials"]
  /\ sent' = Nothing
  /\ persisted' = <<>>
  /\ last' = Event("connection", c, NoFrame, FALSE, "accepted")
  /\ UNCHANGED <<server, tui, process, pending, listening, departed, clients, users, rejected, credentials>>

\* 4.2 transition 1: not decodable, or either field empty or missing
Malformed(frame) ==
  \/ ~frame.json
  \/ ~frame.hasUsername \/ frame.username = <<>>
  \/ ~frame.hasPassword \/ frame.password = <<>>

\* Mutant of HandshakeOutcome: the password is checked before the online flag
HandshakeOutcomePasswordFirst(store, frame) ==
  IF Malformed(frame) THEN "BadCredentialsFormat"
  ELSE IF ~MapHas(store, frame.username) THEN "Registered"
  ELSE IF ~VerifyPassword(frame.password, store[frame.username].passwordHash)
       THEN "WrongPassword"
  ELSE IF store[frame.username].isOnline THEN "AlreadyOnline"
  ELSE "LoggedIn"

\* Mutant of HandshakeOutcome: the password of an existing user is not verified
HandshakeOutcomeNoVerify(store, frame) ==
  IF Malformed(frame) THEN "BadCredentialsFormat"
  ELSE IF ~MapHas(store, frame.username) THEN "Registered"
  ELSE IF store[frame.username].isOnline THEN "AlreadyOnline"
  ELSE "LoggedIn"

\* The outcome of a handshake, decided in the order of 4.2
HandshakeOutcome(store, frame) ==
  IF Malformed(frame) THEN "BadCredentialsFormat"
  ELSE IF ~MapHas(store, frame.username) THEN "Registered"
  ELSE IF store[frame.username].isOnline THEN "AlreadyOnline"
  ELSE IF ~VerifyPassword(frame.password, store[frame.username].passwordHash)
       THEN "WrongPassword"
  ELSE "LoggedIn"

ErrorFrame(reason) == Out("error", "ERROR:", <<>>, reason)

\* On Rejected: one ERROR: frame, then the connection is closed
AuthReject(c, frame, reason, create) ==
  /\ sent' = To({c}, ErrorFrame(reason))
  /\ readyState' = [readyState EXCEPT ![c] = "CLOSING"]
  /\ phase' = [phase EXCEPT ![c] = "Rejected"]
  /\ rejected' = [rejected EXCEPT ![c] = TRUE]
  /\ last' = CreateEvent(c, frame, reason, create)
  /\ UNCHANGED <<clients, users, credentials>>

\* On Authenticated: online flag, registry insert, welcome, join notice
AuthAccept(c, frame, store, outcome, create) ==
  LET name == frame.username
  IN  /\ users' = SetOnline(store, name, TRUE)
      /\ clients' = MapSet(clients, c, name)
      /\ phase' = [phase EXCEPT ![c] = "Authenticated"]
      /\ sent' = Then(To({c}, Out("welcome", "Welcome", name, <<>>)),
                      To(LiveSessions(clients, readyState) \ {c},
                         Out("join", "", name, " has joined")))
      /\ last' = CreateEvent(c, frame, outcome, create)
      /\ Remember(c, name, frame.password)
      /\ UNCHANGED <<readyState, rejected>>

\* findByUsername found no record: the handshake goes on to create one, and
\* other connections are served until the create runs (section 5)
AuthLookupNone(c, frame) ==
  /\ pending' = MapSet(pending, c, frame)
  /\ sent' = Nothing
  /\ last' = Event("lookup", c, frame, FALSE, "none")
  /\ UNCHANGED <<readyState, phase, clients, users, rejected, credentials>>

\* The first frame of a connection
AuthHandshake(c, frame) ==
  /\ server = "auth"
  /\ readyState[c] = "OPEN"
  /\ phase[c] = "AwaitingCredentials"
  /\ ~MapHas(pending, c)
  /\ LET outcome == HandshakeOutcome(users, frame)
     IN  CASE outcome = "Registered" -> AuthLookupNone(c, frame)
           [] outcome = "LoggedIn" ->
                AuthAccept(c, frame, users, outcome, "none") /\ UNCHANGED pending
           [] OTHER -> AuthReject(c, frame, outcome, "none") /\ UNCHANGED pending
  /\ persisted' = <<>>
  /\ UNCHANGED <<server, tui, process, listening, departed>>

\* The create of a suspended handshake.  When a concurrent create of the name
\* succeeded in between, this one fails with DuplicateUser and the handshake
\* is decided as for the user that exists by now (section 8, first property).
AuthCreate(c) ==
  /\ server = "auth"
  /\ readyState[c] = "OPEN"
  /\ MapHas(pending, c)
  /\ LET frame == pending[c]
     IN  IF CreateFails(users, frame.username)
         THEN LET outcome == HandshakeOutcome(users, frame)
              IN  IF outcome = "LoggedIn"
                  THEN AuthAccept(c, frame, users, outcome, "DuplicateUser")
                  ELSE AuthReject(c, frame, outcome, "DuplicateUser")
         ELSE AuthAccept(c, frame,
                         CreateUser(users, frame.username, Hash(frame.password)),
                         "Registered", "created")
  /\ pending' = MapDelete(pending, c)
  /\ persisted' = <<>>
  /\ UNCHANGED <<server, tui, process, listening, departed>>

\* 4.4 step 2, the whisper command grammar: !whisper or !w in any case, then
\* whitespace, a target token, whitespace, and a body that is not empty
WhisperCommands == << <<"!", "w", "h", "i", "s", "p", "e", "r">>, <<"!", "w">> >>

\* what follows the command word, or the whole line when there is none
AfterCommand(line) ==
  IF StartsWith(LowerText(line), WhisperCommands[1])
     /\ Len(line) > Len(WhisperCommands[1])
     /\ IsSpace(line[Len(WhisperCommands[1]) + 1])
  THEN Drop(line, Len(WhisperCommands[1]))
  ELSE IF StartsWith(LowerText(line), WhisperCommands[2])
  THEN Drop(line, Len(WhisperCommands[2]))
  ELSE line

\* the parse of a trimmed line: whether it is a whisper, its target and body
ParseWhisper(line) ==
  LET rest == AfterCommand(line)
      afterGap == TrimLeft(rest)
      target == Token(afterGap)
      afterTarget == Drop(afterGap, Len(target))
      body == TrimLeft(afterTarget)
  IN  [isWhisper |-> /\ rest # line
                     /\ afterGap # rest
                     /\ target # <<>>
                     /\ body # afterTarget
                     /\ body # <<>>,
       target |-> target,
       body |-> body]

\* Message Log write: ok says whether the write went through
LogWrite(record, ok) == IF ok THEN <<record>> ELSE <<>>

\* a routed frame and what became of its Message Log write
ChatEvent(c, frame, outcome, ok) ==
  [ev |-> "message", conn |-> c, frame |-> frame, cred |-> FALSE,
   outcome |-> outcome, create |-> "none", log |-> IF ok THEN "written" ELSE "failed"]

\* Mutant of AuthPublic: a failed log write aborts the routing of the line
AuthPublicLogFirst(c, frame, body, ok) ==
  /\ sent' = IF ok
             THEN To(LiveSessions(clients, readyState), Out("chat", "", clients[c], body))
             ELSE Nothing
  /\ persisted' = LogWrite([sender |-> clients[c], content |-> body,
                            visibility |-> "public", target |-> <<>>], ok)
  /\ last' = ChatEvent(c, frame, "routed", ok)

\* 4.4 public path
AuthPublic(c, frame, body, ok) ==
  /\ sent' = To(LiveSessions(clients, readyState),
                Out("chat", "", clients[c], body))
  /\ persisted' = LogWrite([sender |-> clients[c], content |-> body,
                            visibility |-> "public", target |-> <<>>], ok)
  /\ last' = ChatEvent(c, frame, "routed", ok)

\* Session Registry reverse lookup by username, case-insensitive
SessionsOf(registry, rs, name) ==
  {d \in LiveSessions(registry, rs) : LowerText(registry[d]) = LowerText(name)}

\* Mutant of AuthWhisper: the whisper goes the public way
AuthWhisperToAll(c, frame, target, body, ok) ==
  AuthPublic(c, frame, body, ok)

\* Mutant of AuthWhisper: a whisper to nobody is logged all the same
AuthWhisperLogsMiss(c, frame, target, body, ok) ==
  LET found == SessionsOf(clients, readyState, target)
  IN  IF found = {}
      THEN /\ ok
           /\ sent' = To({c}, Out("notice", "", target, " is not online"))
           /\ persisted' = <<[sender |-> clients[c], content |-> body,
                              visibility |-> "private", target |-> target]>>
           /\ last' = Event("message", c, frame, FALSE, "not online")
      ELSE \E t \in found :
             /\ sent' = To({t, c}, Out("whisper", "", clients[c], body))
             /\ persisted' = LogWrite([sender |-> clients[c], content |-> body,
                                       visibility |-> "private", target |-> clients[t]],
                                      ok)
             /\ last' = ChatEvent(c, frame, "whispered", ok)

\* Mutant of AuthWhisper: the frame is written to the target and then to the
\* sender, whether or not they are the same session
AuthWhisperEchoes(c, frame, target, body, ok) ==
  LET found == SessionsOf(clients, readyState, target)
  IN  IF found = {}
      THEN /\ ok
           /\ sent' = To({c}, Out("notice", "", target, " is not online"))
           /\ persisted' = <<>>
           /\ last' = Event("message", c, frame, FALSE, "not online")
      ELSE \E t \in found :
             /\ sent' = Then(To({t}, Out("whisper", "", clients[c], body)),
                             To({c}, Out("whisper", "", clients[c], body)))
             /\ persisted' = LogWrite([sender |-> clients[c], content |-> body,
                                       visibility |-> "private", target |-> clients[t]],
                                      ok)
             /\ last' = ChatEvent(c, frame, "whispered", ok)

\* 4.4 private path
AuthWhisper(c, frame, target, body, ok) ==
  LET found == SessionsOf(clients, readyState, target)
  IN  IF found = {}
      THEN /\ ok
           /\ sent' = To({c}, Out("notice", "", target, " is not online"))
           /\ persisted' = <<>>
           /\ last' = Event("message", c, frame, FALSE, "not online")
      ELSE \E t \in found :
             /\ sent' = To({t, c}, Out("whisper", "", clients[c], body))
             /\ persisted' = LogWrite([sender |-> clients[c], content |-> body,
                                       visibility |-> "private", target |-> clients[t]],
                                      ok)
             /\ last' = ChatEvent(c, frame, "whispered", ok)

\* nothing is written: there is no log write that could fail
AuthDrop(c, frame, why, ok) ==
  /\ ok
  /\ sent' = Nothing
  /\ persisted' = <<>>
  /\ last' = Event("message", c, frame, FALSE, why)

\* 4.4 Message Router: every frame after the handshake
AuthMessage(c, frame, ok) ==
  /\ server = "auth"
  /\ readyState[c] = "OPEN" \/ (readyState[c] = "CLOSING" /\ phase[c] = "Rejected")
  /\ phase[c] # "AwaitingCredentials"
  /\ LET line == Trim(frame.text)
         whisper == ParseWhisper(line)
     IN  IF phase[c] # "Authenticated" \/ ~MapHas(clients, c)
         THEN AuthDrop(c, frame, "ignored", ok)
         ELSE IF line = <<>>
         THEN AuthDrop(c, frame, "dropped", ok)
         ELSE IF whisper.isWhisper
         THEN AuthWhisper(c, frame, whisper.target, whisper.body, ok)
         ELSE AuthPublic(c, frame, line, ok)
  /\ UNCHANGED <<server, tui, process, pending, listening, departed, readyState, phase, clients, users, rejected, credentials>>

\* Mutant of AuthClose: the record is not marked offline
AuthCloseKeepsOnline(c) ==
  /\ server = "auth"
  /\ readyState[c] \in {"OPEN", "CLOSING"}
  /\ LET rs == [readyState EXCEPT ![c] = "CLOSED"]
     IN  /\ readyState' = rs
         /\ IF MapHas(clients, c)
            THEN /\ clients' = MapDelete(clients, c)
                 /\ sent' = To(LiveSessions(MapDelete(clients, c), rs),
                               Out("leave", "", clients[c], " has left"))
                 /\ last' = Event("close", c, NoFrame, FALSE, "left")
            ELSE /\ sent' = Nothing
                 /\ clients' = clients
                 /\ last' = Event("close", c, NoFrame, FALSE, "anonymous")
  /\ Forget(c)
  /\ persisted' = <<>>
  /\ pending' = MapDelete(pending, c)
  /\ UNCHANGED <<server, tui, process, listening, users>>

\* 4.5 cleanup on close
AuthClose(c) ==
  /\ server = "auth"
  /\ readyState[c] \in {"OPEN", "CLOSING"}
  /\ LET rs == [readyState EXCEPT ![c] = "CLOSED"]
     IN  /\ readyState' = rs
         /\ IF MapHas(clients, c)
            THEN /\ clients' = MapDelete(clients, c)
                 /\ users' = SetOnline(users, clients[c], FALSE)
                 /\ sent' = To(LiveSessions(MapDelete(clients, c), rs),
                               Out("leave", "", clients[c], " has left"))
                 /\ last' = Event("close", c, NoFrame, FALSE, "left")
            ELSE /\ sent' = Nothing
                 /\ UNCHANGED <<clients, users>>
                 /\ last' = Event("close", c, NoFrame, FALSE, "anonymous")
  /\ Forget(c)
  /\ pending' = MapDelete(pending, c)
  /\ persisted' = <<>>
  /\ UNCHANGED <<server, tui, process, listening>>

\* 4.5 shutdown signal: notice to every live session, close every connection,
\* stop accepting
AuthShutdown ==
  /\ server = "auth"
  /\ listening
  /\ sent' = To(LiveSessions(clients, readyState),
                Out("shutdown", "Server is shutting down", <<>>, <<>>))
  /\ readyState' = Closing(readyState)
  /\ listening' = FALSE
  /\ persisted' = <<>>
  /\ last' = Event("shutdown", 0, NoFrame, FALSE, "signal")
  /\ UNCHANGED <<server, tui, process, pending, departed, phase, clients, users, rejected, credentials>>

\* Mutant of ResetAllOffline: the records are left as the crash left them
ResetNoneOffline(store) == store

\* Credential Store, resetAllOffline(): every record is marked offline
ResetAllOffline(store) == [u \in DOMAIN store |-> [store[u] EXCEPT !.isOnline = FALSE]]

\* The process dies without running any close handler: every connection is
\* gone and the Session Registry, which lives in memory, with them; the
\* persisted Credential Store keeps whatever it held
AuthCrash ==
  /\ server = "auth"
  /\ last.ev # "crash"
  /\ readyState' = Gone(readyState)
  /\ phase' = [c \in Conns |-> IF readyState[c] = "NONE" THEN phase[c] ELSE "Closed"]
  /\ rejected' = [c \in Conns |-> FALSE]
  /\ clients' = EmptyMap
  /\ pending' = EmptyMap
  /\ credentials' = EmptyMap
  /\ departed' = departed \cup MapValues(credentials)
  /\ listening' = FALSE
  /\ sent' = Nothing
  /\ persisted' = <<>>
  /\ last' = Event("crash", 0, NoFrame, FALSE, "down")
  /\ UNCHANGED <<server, tui, process, users>>

\* The next process start: resetAllOffline() runs once, then the server
\* listens.  The outcome says whether a record had been left online.
AuthStart ==
  /\ server = "auth"
  /\ last.ev = "crash"
  /\ users' = ResetAllOffline(users)
  /\ listening' = TRUE
  /\ sent' = Nothing
  /\ persisted' = <<>>
  /\ last' = Event("start", 0, NoFrame, FALSE,
                   IF \E u \in DOMAIN users : users[u].isOnline
                   THEN "repaired" ELSE "clean")
  /\ UNCHANGED <<server, tui, process, pending, departed, readyState, phase, clients, rejected, credentials>>

\* First frames a client may send: text that does not decode, and payloads
\* with each field present, empty or missing.
Names == { <<"a">>, <<"A">>, <<"b">> }

\* Lines of an authenticated client: chat, and whispers in both spellings of
\* the command, one of them without a body
AuthLines ==
  Lines \cup { <<"!", "w", " ", "b", " ", "x">>,
               <<"!", "W", "h", "i", "s", "p", "e", "r", " ", "A", " ", " ", "x", " ", "y">>,
               <<"!", "w", " ", "b">> }

\* the first user tries both passwords, the others have one each
Logins ==
  { JsonFrame("message", TRUE, <<"a">>, TRUE, <<"p">>),
    JsonFrame("message", TRUE, <<"a">>, TRUE, <<"q">>),
    JsonFrame("message", TRUE, <<"A">>, TRUE, <<"p">>),
    JsonFrame("message", TRUE, <<"b">>, TRUE, <<"q">>) }

AuthFrames ==
  Logins
    \cup {TextFrame(<<"a">>),
          JsonFrame("message", TRUE, <<>>, TRUE, <<"p">>),
          JsonFrame("message", TRUE, <<"a">>, TRUE, <<>>),
          JsonFrame("message", FALSE, <<>>, TRUE, <<"p">>),
          JsonFrame("message", TRUE, <<"a">>, FALSE, <<>>)}

\* What a client sends after its handshake: its lines when it is
\* authenticated, a line that the router ignores when it was rejected
AuthInputs(c) == IF phase[c] = "Authenticated" THEN AuthLines ELSE {<<" ", "a">>}

NextAuth ==
  \/ AuthShutdown
  \/ AuthCrash
  \/ AuthStart
  \/ \E c \in Conns : AuthConnection(c)
  \/ \E c \in Conns, f \in AuthFrames : AuthHandshake(c, f)
  \/ \E c \in Conns : AuthCreate(c)
  \/ \E c \in Conns, ok \in BOOLEAN :
        \E s \in AuthInputs(c) : AuthMessage(c, TextFrame(s), ok)
  \/ \E c \in Conns : AuthClose(c)

(***************************************************************************)
(* Specifications                                                          *)
(***************************************************************************)
InitCommon ==
  /\ readyState = [c \in Conns |-> "NONE"]
  /\ phase = [c \in Conns |-> "AwaitingCredentials"]
  /\ clients = EmptyMap
  /\ users = EmptyMap
  /\ rejected = [c \in Conns |-> FALSE]
  /\ sent = Nothing
  /\ persisted = <<>>
  /\ last = Event("start", 0, NoFrame, FALSE, "started")
  /\ credentials = EmptyMap
  /\ pending = EmptyMap
  /\ listening = TRUE
  /\ process = "up"
  /\ tui = [state |-> "loginView", conn |-> 0, dials |-> 0,
            reads |-> [c \in Conns |-> 0], sends |-> [c \in Conns |-> 0],
            status |-> [c \in Conns |-> "none"]]
  /\ departed = {}

InitWs == server = "ws" /\ InitCommon
InitIo == server = "io" /\ InitCommon
InitWs2 == server = "ws2" /\ InitCommon
InitAuth == server = "auth" /\ InitCommon

SpecWs == InitWs /\ [][NextWs]_vars
SpecIo == InitIo /\ [][NextIo]_vars
SpecWs2 == InitWs2 /\ [][NextWs2]_vars
SpecAuth == InitAuth /\ [][NextAuth]_vars

\* The two servers built on the ws library
SpecWsLib == (InitWs \/ InitWs2) /\ [][NextWs \/ NextWs2]_vars

\* The ws library emits close on a connection once its socket is being torn
\* down: a close that is due is not postponed forever
CloseDue(c) ==
  /\ readyState[c] = "CLOSING"
  /\ \E failed \in Failures : WsClose(c, failed) \/ Ws2Close(c, failed)

LiveSpecWs == SpecWs /\ WF_vars(WsExit) /\ \A c \in Conns : WF_vars(CloseDue(c))

\* A callback that is due runs, and so does a timer that was armed
LiveSpecIo == SpecIo /\ WF_vars(IoExit) /\ WF_vars(IoForcedExit)
LiveSpecWs2 == SpecWs2 /\ \A c \in Conns : WF_vars(CloseDue(c))

\* Any of the servers
Init == InitWs \/ InitIo \/ InitWs2 \/ InitAuth
Next == NextWs \/ NextIo \/ NextWs2 \/ NextAuth
Spec == Init /\ [][Next]_vars

(***************************************************************************)
(* Properties                                                              *)
(***************************************************************************)
\* The step just taken handled a frame of connection c as credentials
HandshakeStep(c) == last.ev = "message" /\ last.conn = c /\ last.cred

\* The step just taken answered a handshake on c with a rejection
RejectedNow(c) ==
  /\ HandshakeStep(c)
  /\ last.outcome \in {"rejected", "BadCredentialsFormat", "AlreadyOnline", "WrongPassword"}

\* No handshake has run on c yet: the next frame is its first
Fresh(c) == phase[c] = "AwaitingCredentials" /\ ~rejected[c]

\* A payload with both fields present and not empty
WellFormed(frame) ==
  /\ frame.json
  /\ frame.hasUsername /\ frame.username # <<>>
  /\ frame.hasPassword /\ frame.password # <<>>

\* A first frame that carries no usable credentials.  The servers that take a
\* bare username have no password field: there the frame is malformed when
\* the username is missing or blank.
MalformedCredentials(frame) ==
  IF server = "auth" THEN ~WellFormed(frame)
  ELSE IF frame.json THEN ~frame.hasUsername \/ Trim(frame.username) = <<>>
  ELSE Trim(frame.text) = <<>>

\* The frame presents username u with password pw
Presents(frame, u, pw) ==
  IF server = "auth"
  THEN WellFormed(frame) /\ frame.username = u /\ frame.password = pw
  ELSE /\ ~MalformedCredentials(frame)
       /\ u = (IF frame.json THEN Trim(frame.username) ELSE Trim(frame.text))

Delivered(kind) ==
  \E d \in Conns : \E i \in 1..Len(sent[d]) : sent[d][i].kind = kind

\* The step just taken routed a frame of connection c as chat traffic
ChatFrom(c) == last.ev = "message" /\ last.conn = c /\ ~last.cred /\ Delivered("chat")

HasSession(u) == \E c \in DOMAIN clients : clients[c] = u

\* History: some connection authenticated as u with password pw
RegisteredWith(u, pw) ==
  \/ [username |-> u, password |-> pw] \in departed
  \/ \E d \in DOMAIN credentials :
        credentials[d].username = u /\ credentials[d].password = pw

\* History: every connection that authenticated as u has been closed
Disconnected(u) ==
  \A d \in DOMAIN credentials : credentials[d].username # u

\* C1: at any instant at most one session is registered for a username.
\* server.js registers every non-empty first frame (lines 134-137): violated.
C1_AtMostOneSessionPerUsername ==
  \A c1, c2 \in DOMAIN clients : clients[c1] = clients[c2] => c1 = c2

\* The server process is running (it is not between a crash and the next start)
ProcessUp == last.ev # "crash"

C3_ChatOnlyAfterHandshake ==
  [][\A c \in Conns :
       ChatFrom(c)' => phase[c] = "Authenticated" /\ MapHas(clients, c)]_vars

C3_Witness == \E c \in Conns : ChatFrom(c) /\ Len(sent[c]) = 1

\* C4: once a connection is Authenticated or Rejected, no later frame of it is
\* parsed as credentials and its username never changes.
\* server.js keeps waiting for a username after it rejected one: violated.
C4_HandshakeAtMostOnce ==
  [][\A c \in Conns :
       (phase[c] \in {"Authenticated", "Rejected"} \/ rejected[c]) =>
          /\ ~HandshakeStep(c)'
          /\ MapHas(clients', c) => MapHas(clients, c) /\ clients'[c] = clients[c]]_vars

\* C5: a rejected handshake gets exactly one frame that begins with ERROR:,
\* the connection is then closed, and it gets no second attempt.
\* server.js answers "Error: ..." and leaves the connection open: violated.
C5_RejectionIsFinal ==
  [][\A c \in Conns :
       /\ RejectedNow(c)' =>
            /\ Len(sent'[c]) = 1
            /\ sent'[c][1].head = "ERROR:"
            /\ readyState'[c] \in {"CLOSING", "CLOSED"}
       /\ rejected[c] => ~HandshakeStep(c)']_vars

\* C6: a handshake for a username whose record is online is rejected with
\* AlreadyOnline, and everything the server does in answer is fixed by that
\* alone: it is the same for every password, the correct one included.
C6_AlreadyOnlineWhateverThePassword ==
  [][\A c \in Conns :
       (/\ HandshakeStep(c)'
        /\ WellFormed(last'.frame)
        /\ MapHas(users, last'.frame.username)
        /\ users[last'.frame.username].isOnline) =>
          /\ last'.outcome = "AlreadyOnline"
          /\ sent' = To({c}, ErrorFrame("AlreadyOnline"))
          /\ readyState' = [readyState EXCEPT ![c] = "CLOSING"]
          /\ phase' = [phase EXCEPT ![c] = "Rejected"]
          /\ persisted' = <<>>
          /\ UNCHANGED <<users, clients>>]_vars

\* rejected although the password was the registered one
C6_Witness ==
  /\ last.outcome = "AlreadyOnline"
  /\ RegisteredWith(last.frame.username, last.frame.password)

\* C7: a handshake for an existing offline username with another password than
\* the registered one is rejected with WrongPassword and changes neither the
\* store nor the registry.
C7_WrongPasswordChangesNothing ==
  [][\A c \in Conns :
       (/\ HandshakeStep(c)'
        /\ WellFormed(last'.frame)
        /\ MapHas(users, last'.frame.username)
        /\ ~users[last'.frame.username].isOnline
        /\ \E pw \in Passwords \ {last'.frame.password} :
              RegisteredWith(last'.frame.username, pw)) =>
          /\ last'.outcome = "WrongPassword"
          /\ sent' = To({c}, ErrorFrame("WrongPassword"))
          /\ phase'[c] = "Rejected"
          /\ ~MapHas(clients', c)
          /\ UNCHANGED <<users, clients>>]_vars

C7_Witness ==
  /\ last.outcome = "WrongPassword"
  /\ ~users[last.frame.username].isOnline

\* C8: after u was registered with password P and its session has gone, a
\* connection that presents (u, P) is Authenticated as u.
C8_ReconnectSucceeds ==
  [][\A c \in Conns : \A d \in departed :
       (/\ HandshakeStep(c)'
        /\ Fresh(c)
        /\ Disconnected(d.username)
        /\ Presents(last'.frame, d.username, d.password)) =>
          /\ phase'[c] = "Authenticated"
          /\ MapHas(clients', c) /\ clients'[c] = d.username
          /\ ~RejectedNow(c)']_vars

\* a reconnect of a registered user on another connection than the first
C8_Witness ==
  \E c \in DOMAIN clients :
     /\ HandshakeStep(c) /\ last.outcome = "LoggedIn"
     /\ credentials[c] \in departed

\* C9: a well-formed handshake for a username without a record creates exactly
\* one record, for that username, holding the hash of the password, and the
\* connection becomes Authenticated.
C9_FirstUseRegisters ==
  [][\A c \in Conns :
       (/\ HandshakeStep(c)'
        /\ WellFormed(last'.frame)
        /\ ~MapHas(users, last'.frame.username)) =>
          /\ DOMAIN users' = DOMAIN users \cup {last'.frame.username}
          /\ \A v \in DOMAIN users : users'[v] = users[v]
          /\ users'[last'.frame.username].passwordHash = Hash(last'.frame.password)
          /\ users'[last'.frame.username].passwordHash # last'.frame.password
          /\ phase'[c] = "Authenticated"
          /\ MapHas(clients', c) /\ clients'[c] = last'.frame.username]_vars

C9_Witness ==
  /\ last.outcome = "Registered"
  /\ Cardinality(DOMAIN users) = 2

\* C10: a malformed first frame is rejected: no session, no change to the
\* store, no join notice, and the connection is closed.
\* The ws.once server registers a blank first frame as the username "" and
\* broadcasts its join notice; server.js leaves the connection open: violated.
C10_MalformedFirstFrameRejected ==
  [][\A c \in Conns :
       (HandshakeStep(c)' /\ Fresh(c) /\ MalformedCredentials(last'.frame)) =>
          /\ ~MapHas(clients', c)
          /\ users' = users
          /\ ~Delivered("join")'
          /\ readyState'[c] \in {"CLOSING", "CLOSED"}]_vars

\* The step just taken ran the create of connection c's suspended handshake
CreateStep(c) == HandshakeStep(c) /\ last.create # "none"

\* C11: the store never holds two records of one username; a create for a
\* username that has no record adds it, and a create for a username whose
\* record a concurrent handshake created meanwhile fails with DuplicateUser
\* and leaves the records as they are.
C11_OneRecordPerUsername ==
  [][/\ \A u \in DOMAIN users' : users'[u].copies = 1
     /\ \A c \in Conns :
          CreateStep(c)' =>
             LET name == last'.frame.username
             IN  IF MapHas(users, name)
                 THEN /\ last'.create = "DuplicateUser"
                      /\ DOMAIN users' = DOMAIN users
                      /\ users'[name].passwordHash = users[name].passwordHash
                 ELSE /\ last'.create = "created"
                      /\ DOMAIN users' = DOMAIN users \cup {name}]_vars

\* two handshakes raced for one unknown username: the other one's create
\* came first and its session is live
C11_Witness ==
  \E c \in Conns : \E d \in DOMAIN clients \ {c} :
     /\ CreateStep(c) /\ last.create = "DuplicateUser"
     /\ clients[d] = last.frame.username
     /\ last.outcome = "AlreadyOnline"

\* The step just taken handled a frame that connection c, authenticated and
\* registered before the step, sent after its handshake
RoutedStep(c) ==
  /\ last'.ev = "message" /\ last'.conn = c /\ ~last'.cred
  /\ last'.frame.event = "message"
  /\ phase[c] = "Authenticated" /\ MapHas(clients, c)

\* A line that is chat for everyone: not blank and not a whisper command
PublicLine(frame) ==
  /\ Trim(frame.text) # <<>>
  /\ ~ParseWhisper(Trim(frame.text)).isWhisper

\* How many frames of the kind, about the user, the sequence holds
Count(frames, kind, user) ==
  Cardinality({i \in 1..Len(frames) : frames[i].kind = kind /\ frames[i].user = user})

\* C12: a public chat line of an authenticated user is delivered exactly once
\* to every registered session with a writable connection, the sender's
\* included, and a public Message record is written for it.
\* server.js only logs the line (lines 155-158) and delivers it to no one:
\* violated.
C12_PublicLineReachesEverySession ==
  [][\A c \in Conns :
       (RoutedStep(c) /\ PublicLine(last'.frame)) =>
          /\ \A d \in DOMAIN clients :
                readyState[d] = "OPEN" =>
                   /\ Count(sent'[d], "chat", clients[c]) = 1
                   /\ \A i \in 1..Len(sent'[d]) :
                         sent'[d][i].kind = "chat" =>
                            Trim(sent'[d][i].body) = Trim(last'.frame.text)
          /\ last'.log # "failed" =>
                persisted' = <<[sender |-> clients[c], content |-> Trim(last'.frame.text),
                                visibility |-> "public", target |-> <<>>]>>]_vars

\* The sessions that are live: registered, on an open connection
Live(registry, rs) == {d \in DOMAIN registry : rs[d] = "OPEN"}

\* C13: when a connection becomes Authenticated as u, every other live
\* session gets the join notice of u once, the connection itself gets none,
\* and when there is no other live session nobody gets one.
\* server.js broadcasts the notice to every open connection, the joining one
\* included (lines 146-147, 82-88): violated.
C13_JoinNoticeToTheOthers ==
  [][\A c \in Conns :
       (phase[c] # "Authenticated" /\ phase'[c] = "Authenticated") =>
          LET u == clients'[c]
              others == Live(clients, readyState) \ {c}
          IN  /\ \A d \in others : Count(sent'[d], "join", u) = 1
              /\ Count(sent'[c], "join", u) = 0
              /\ others = {} => ~Delivered("join")']_vars

\* The step just taken handled the close of connection c, whose session was
\* authenticated before the step
SessionClosed(c) ==
  /\ last'.ev = "close" /\ last'.conn = c
  /\ phase[c] = "Authenticated" /\ MapHas(clients, c)

\* C14: the close of an authenticated session removes it from the registry,
\* marks its user offline and delivers one leave notice of the user to each
\* session that remains live.
\* The ws.once server skips all of it for the session it registered under the
\* empty username (part_005:298-299): violated.
C14_CloseRemovesAndAnnounces ==
  [][\A c \in Conns :
       SessionClosed(c) =>
          /\ ~MapHas(clients', c)
          /\ MapHas(users, clients[c]) => ~users'[clients[c]].isOnline
          /\ \A d \in Live(clients', readyState') :
                Count(sent'[d], "leave", clients[c]) = 1]_vars

\* The step just taken ran the disconnect cleanup of c: it took c's session
\* out of the registry or announced its departure
CleanupRan(c) ==
  \/ MapHas(clients, c) /\ ~MapHas(clients', c)
  \/ last'.conn = c /\ Delivered("leave")'

\* C15: the cleanup runs for a connection only in the step that closes it,
\* which happens once, and by then the session is out of the registry,
\* whether an error event, a failed write or the close itself came first.
\* The ws.once server never cleans up the session it registered under the
\* empty username: violated.
C15_CleanupOnce ==
  [][\A c \in Conns :
       /\ CleanupRan(c) => readyState[c] # "CLOSED" /\ readyState'[c] = "CLOSED"
       /\ readyState[c] = "CLOSED" => readyState'[c] = "CLOSED"
       /\ readyState'[c] = "CLOSED" => ~MapHas(clients', c)]_vars

\* C16: the handler of a shutdown signal delivers the shutdown notice to every
\* live session, closes its connection after that (never without the notice)
\* and stops the listener.
\* The SIGTERM handler of the Socket.IO server sends no notice and closes no
\* connection (part_005:229-235): violated.
C16_ShutdownNoticeThenClose ==
  [][last'.ev = "shutdown" =>
       /\ \A d \in Live(clients, readyState) :
             /\ Count(sent'[d], "shutdown", <<>>) = 1
             /\ readyState'[d] # "OPEN"
       /\ ~listening']_vars

\* Whisper commands as a client types them, with the target and the body
\* they name
WhisperTable ==
  { [text |-> <<"!", "w", " ", "b", " ", "x">>,
     target |-> <<"b">>, body |-> <<"x">>],
    [text |-> <<"!", "W", "h", "i", "s", "p", "e", "r", " ", "A", " ", " ", "x", " ", "y">>,
     target |-> <<"A">>, body |-> <<"x", " ", "y">>] }

\* The live sessions of the username, compared without regard to case
Online(name) ==
  {d \in Live(clients, readyState) :
      clients[d] = name \/ {clients[d], name} = {<<"a">>, <<"A">>}}

\* The step just taken delivered the whisper w of connection c to c and to one
\* session of the target, and to no one else
WhisperDelivered(c, w) ==
  \E t \in Online(w.target) :
     /\ sent' = To({c, t}, Out("whisper", "", clients[c], w.body))
     /\ persisted' \in {<<>>, <<[sender |-> clients[c], content |-> w.body,
                                  visibility |-> "private", target |-> clients[t]]>>}

C18_WhisperToNobody ==
  [][\A c \in Conns : \A w \in WhisperTable :
       (/\ RoutedStep(c) /\ last'.frame.text = w.text
        /\ Online(w.target) = {}) =>
          /\ Len(sent'[c]) = 1 /\ sent'[c][1].kind = "notice"
          /\ \A d \in Conns \ {c} : sent'[d] = <<>>
          /\ persisted' = <<>>]_vars

\* the target is known to the store but offline, and another session is live
C18_Witness ==
  /\ last.outcome = "not online"
  /\ MapHas(users, <<"b">>) /\ ~users[<<"b">>].isOnline
  /\ Cardinality(Live(clients, readyState)) = 2
  /\ persisted = <<>>

\* The connections whose write failed in the step just taken: they were open
\* and are being torn down, and neither an error event nor a shutdown did it
FailedWrites ==
  IF last'.ev \in {"message", "close"}
  THEN {d \in Conns : readyState[d] = "OPEN" /\ readyState'[d] = "CLOSING"}
  ELSE {}

\* C19: when the write of a join, leave or chat frame to one destination
\* fails, every other open connection still gets the frame, once, and nobody
\* gets an error frame for it.
C19_BestEffortDelivery ==
  [][(FailedWrites # {} /\ last'.outcome \in {"registered", "routed", "left"}) =>
       /\ \A d \in Conns :
             readyState'[d] = "OPEN" =>
                /\ Len(sent'[d]) = 1
                /\ sent'[d][1].kind \in {"join", "chat", "leave"}
       /\ ~Delivered("error")']_vars

\* the write to the second of three clients failed; the first and the third
\* got the frame
C19_Witness ==
  /\ readyState[2] = "CLOSING" /\ sent[2] = <<>>
  /\ last.ev = "message" /\ last.outcome = "registered"
  /\ Len(sent[1]) = 1 /\ Len(sent[3]) = 1

\* C20: when the Message Log write for an accepted chat line fails, the line
\* is delivered all the same and the sender's session stays authenticated,
\* registered and open.
C20_LogFailureDoesNotBlockChat ==
  [][\A c \in Conns :
       (RoutedStep(c) /\ last'.log = "failed") =>
          /\ persisted' = <<>>
          /\ PublicLine(last'.frame) =>
                \A d \in Live(clients, readyState) :
                   Count(sent'[d], "chat", clients[c]) = 1
          /\ \A w \in WhisperTable :
                last'.frame.text = w.text => WhisperDelivered(c, w)
          /\ phase'[c] = "Authenticated"
          /\ MapHas(clients', c) /\ clients'[c] = clients[c]
          /\ readyState'[c] = "OPEN"]_vars

C20_Witness ==
  /\ last.log = "failed" /\ last.outcome = "routed"
  /\ persisted = <<>>
  /\ \E c, d \in Live(clients, readyState) : c # d /\ Len(sent[c]) = 1 /\ Len(sent[d]) = 1

\* C21: a frame of an authenticated session that is empty once its
\* surrounding whitespace is trimmed is dropped: no frame is delivered to any
\* session and no Message record is written.
\* The ws.once server trims the text and broadcasts "<user>: " without testing
\* it (part_005:279-293); the Socket.IO server emits it as well (146-163):
\* violated.
C21_BlankLineDropped ==
  [][\A c \in Conns :
       (RoutedStep(c) /\ Trim(last'.frame.text) = <<>>) =>
          /\ \A d \in Conns : sent'[d] = <<>>
          /\ persisted' = <<>>]_vars

\* C22: the start that follows a crash marks every user record offline, no
\* handshake is processed between the crash and that start, and from then on
\* a connection that presents the right password of a user without a live
\* session is Authenticated, never rejected as AlreadyOnline.
C22_StartRepairsOnlineFlags ==
  [][/\ (last.ev = "crash" /\ last'.ev = "start") =>
           \A u \in DOMAIN users' : ~users'[u].isOnline
     /\ \A c \in Conns :
           HandshakeStep(c)' =>
              /\ ProcessUp
              /\ \A u \in DOMAIN users :
                    (/\ Fresh(c)
                     /\ ~HasSession(u)
                     /\ last'.frame.json
                     /\ Presents(last'.frame, u, last'.frame.password)
                     /\ VerifyPassword(last'.frame.password, users[u].passwordHash)) =>
                       /\ last'.outcome = "LoggedIn"
                       /\ phase'[c] = "Authenticated"
                       /\ MapHas(clients', c) /\ clients'[c] = u]_vars

\* a start has found a record the crash had left online, and reset it
C22_Witness ==
  /\ last.ev = "start" /\ last.outcome = "repaired"
  /\ departed # {}
  /\ \A u \in DOMAIN users : ~users[u].isOnline

(***************************************************************************)
(* The client (src/client/chat.go)                                         *)
(***************************************************************************)
\* The first six characters of the literal text a frame of the ws servers
\* begins with
Chars(head) ==
  CASE head = "ERROR:" -> <<"E", "R", "R", "O", "R", ":">>
    [] head = "Error:" -> <<"E", "r", "r", "o", "r", ":">>
    [] head = "Welcome" -> <<"W", "e", "l", "c", "o", "m">>
    [] head \in {"Server is shutting down", "Server is shutting down..."} ->
         <<"S", "e", "r", "v", "e", "r">>
    [] OTHER -> <<>>

\* How the text of a frame begins: with its literal head, or with the user
\* name when it has none
LeadingText(frame) == IF frame.head = "" THEN frame.user ELSE Chars(frame.head)

\* strings.HasPrefix(message, "ERROR:")
HasErrorPrefix(message) == StartsWith(message, <<"E", "R", "R", "O", "R", ":">>)

\* connectWebsocket after the credentials are written: it reads one message;
\* a read error (the connection went down with nothing to read) and a text
\* with the ERROR: prefix make it return an error, anything else makes it
\* return the open connection
ConnectWebsocket(received, open) ==
  IF received = <<>> THEN (IF open THEN "reading" ELSE "error")
  ELSE IF HasErrorPrefix(LeadingText(received[1])) THEN "error"
  ELSE "connected"

\* C23: when the server rejects the handshake of a connection, connectWebsocket
\* on that connection returns an error, and it returns the open connection
\* only when the server has made the connection Authenticated.
\* server.js answers an empty username with a frame that begins "Error:"
\* (lines 127-132), which the client's test for "ERROR:" does not match:
\* violated.
C23_ClientSeesEveryRejection ==
  [][\A c \in Conns :
       (HandshakeStep(c)' /\ Fresh(c)) =>
          LET result == ConnectWebsocket(sent'[c], readyState'[c] = "OPEN")
          IN  /\ RejectedNow(c)' => result = "error"
              /\ result = "connected" => phase'[c] = "Authenticated"]_vars

\* C24: while the server runs the Session Registry changes in two ways only:
\* a handshake that succeeds inserts the session of its connection, and the
\* close of a connection removes the session of that connection.  Routing a
\* chat frame, rejecting a handshake and failing to deliver a frame leave it
\* as it was.
C24_RegistryChangedByHandshakeAndClose ==
  [][(clients' # clients /\ last'.ev # "crash") =>
        \/ \E c \in Conns :
              /\ HandshakeStep(c)' /\ ~RejectedNow(c)'
              /\ ~MapHas(clients, c) /\ MapHas(clients', c)
              /\ clients' = MapSet(clients, c, clients'[c])
        \/ \E c \in DOMAIN clients :
              /\ last'.ev = "close" /\ last'.conn = c
              /\ clients' = MapDelete(clients, c)]_vars

\* a chat frame was handled while a session whose connection has failed is
\* still registered
C24_Witness ==
  /\ last.ev = "message" /\ ~last.cred /\ last.outcome \in {"routed", "logged"}
  /\ \E d \in DOMAIN clients : readyState[d] = "CLOSING"
  /\ \E d \in DOMAIN clients : readyState[d] = "OPEN"

\* C25: when a connection that never became Authenticated closes, no frame is
\* delivered to any session, and the Session Registry and the online flag of
\* every user stay as they were.
C25_AnonymousCloseIsSilent ==
  [][\A c \in Conns :
       (last'.ev = "close" /\ last'.conn = c /\ phase[c] # "Authenticated") =>
          /\ \A d \in Conns : sent'[d] = <<>>
          /\ clients' = clients
          /\ users' = users]_vars

\* a connection that was not authenticated closed while a session was live
C25_Witness ==
  /\ last.ev = "close" /\ last.outcome = "anonymous"
  /\ \E d \in DOMAIN clients : readyState[d] = "OPEN"

\* C26: a whisper whose target is the sender's own session is delivered to
\* that session exactly once and to no other session, and one private Message
\* record is written for it.
C26_WhisperToOneself ==
  [][\A c \in Conns : \A w \in WhisperTable :
       (/\ RoutedStep(c) /\ last'.frame.text = w.text
        /\ Online(w.target) = {c}) =>
          /\ sent' = To({c}, Out("whisper", "", clients[c], w.body))
          /\ last'.log # "failed" =>
                persisted' = <<[sender |-> clients[c], content |-> w.body,
                                visibility |-> "private", target |-> clients[c]]>>]_vars

\* the sender alone got the whisper while another session was live
C26_Witness ==
  /\ last.ev = "message" /\ last.outcome = "whispered"
  /\ MapHas(clients, last.conn)
  /\ Online(clients[last.conn]) = {last.conn}
  /\ Len(sent[last.conn]) = 1
  /\ \A d \in Conns \ {last.conn} : sent[d] = <<>>
  /\ Cardinality(Live(clients, readyState)) >= 2
  /\ Len(persisted) = 1 /\ persisted[1].target = clients[last.conn]

\* C27: a registered session whose connection has had an error or has been
\* closed is eventually removed from the Session Registry (the step that
\* removes it broadcasts its leave notice).
\* On the ws.once server the session registered under the empty username is
\* never removed: its close handler skips the cleanup (part_005:297-309) and
\* the entry stays for good: violated.
C27_DeadSessionEventuallyRemoved ==
  \A c \in Conns :
     (MapHas(clients, c) /\ readyState[c] \in {"CLOSING", "CLOSED"})
        ~> ~MapHas(clients, c)

\* C28: once a shutdown signal is being handled, the server process
\* eventually exits, whether or not the clients close their connections.
\* The SIGTERM handler of the Socket.IO server calls server.close() and arms
\* no timer (part_005:229-235): while a client stays connected the process
\* never exits: violated.
C28_ShutdownTerminates ==
  (process \in {"SIGINT", "SIGTERM"}) ~> (process = "exited")

\* C29: whatever connections have registered or disconnected between two
\* broadcasts, a broadcast hands the frame to a connection at most once, only
\* to connections that are open, and the handler that broadcasts runs to its
\* end: the process is up afterwards.
C29_BroadcastAtMostOnce ==
  [][\A d \in Conns :
       /\ Len(sent'[d]) <= 1
       /\ sent'[d] # <<>> => readyState[d] = "OPEN"
       /\ (sent'[d] # <<>> /\ last'.ev \in {"message", "close"}) =>
             process' = process]_vars

\* a join notice reached two connections after another connection had closed
C29_Witness ==
  /\ last.ev = "message" /\ last.outcome = "registered"
  /\ Cardinality({d \in Conns : Len(sent[d]) = 1}) >= 2
  /\ \E c \in Conns : readyState[c] = "CLOSED"

(***************************************************************************)
(* The client's parseMessage (src/unnamed/part_002)                        *)
(***************************************************************************)
\* strings.Index + 1: where sub first occurs in s, 0 when it does not
IndexOf(s, sub) ==
  LET at == {i \in 1..(Len(s) - Len(sub) + 1) : SubSeq(s, i, i + Len(sub) - 1) = sub}
  IN  IF at = {} THEN 0 ELSE CHOOSE i \in at : \A j \in at : i <= j

Contains(s, sub) == IndexOf(s, sub) # 0

HasSuffix(s, suffix) ==
  Len(s) >= Len(suffix) /\ SubSeq(s, Len(s) - Len(suffix) + 1, Len(s)) = suffix

TrimSuffix(s, suffix) ==
  IF HasSuffix(s, suffix) THEN SubSeq(s, 1, Len(s) - Len(suffix)) ELSE s

\* strings.SplitN for n > 0: at most n parts, the last one is the unsplit rest
RECURSIVE SplitN(_, _, _)
SplitN(s, sep, n) ==
  LET i == IndexOf(s, sep)
  IN  IF n <= 1 \/ i = 0 THEN <<s>>
      ELSE <<SubSeq(s, 1, i - 1)>> \o SplitN(Drop(s, i + Len(sep) - 1), sep, n - 1)

\* strings.Split: every separator splits
Split(s, sep) == SplitN(s, sep, Len(s) + 1)

\* strings.Fields: the maximal runs of characters that are not whitespace
RECURSIVE Fields(_)
Fields(s) ==
  LET rest == TrimLeft(s)
  IN  IF rest = <<>> THEN <<>>
      ELSE <<Token(rest)>> \o Fields(Drop(rest, Len(Token(rest))))

HasJoined == <<" ", "h", "a", "s", " ", "j", "o", "i", "n", "e", "d">>
HasLeft == <<" ", "h", "a", "s", " ", "l", "e", "f", "t">>
Said == <<" ", "s", "a", "i", "d">>
PrivatelySaid == <<" ", "p", "r", "i", "v", "a", "t", "e", "l", "y">> \o Said
ColonSpace == <<":", " ">>
CommaSpace == <<",", " ">>

\* time.Now().Format("15:04"): the clock of the client, not part of the frame
Now == <<"n", "o", "w">>

\* The time of day parseMessage shows for the timestamp of a chat frame
DisplayTime(fullTimestamp) ==
  LET timeParts == Split(fullTimestamp, CommaSpace)
  IN  IF Len(timeParts) > 1
      THEN LET timeOnly == timeParts[2]
               timeOnlyParts == Split(timeOnly, <<":">>)
           IN  IF Len(timeOnlyParts) >= 2
               THEN LET hm == timeOnlyParts[1] \o <<":">> \o timeOnlyParts[2]
                    IN  IF Len(timeOnlyParts) = 3
                        THEN LET amPmParts == Fields(Trim(timeOnlyParts[3]))
                             IN  IF Len(amPmParts) > 1
                                 THEN hm \o <<" ">> \o amPmParts[2]
                                 ELSE hm
                        ELSE hm
               ELSE timeOnly
      ELSE Now

ChatMessage(timestamp, user, content, isSystem) ==
  [Timestamp |-> timestamp, User |-> user, Content |-> content, IsSystem |-> isSystem]

parseMessage(raw) ==
  IF Contains(raw, HasJoined)
  THEN ChatMessage(Now, TrimSuffix(raw, HasJoined), "joined the chat", TRUE)
  ELSE IF Contains(raw, HasLeft)
  THEN ChatMessage(Now, TrimSuffix(raw, HasLeft), "left the chat", TRUE)
  ELSE LET parts == SplitN(raw, ColonSpace, 3)
       IN  IF Len(parts) = 3 /\ HasSuffix(parts[2], Said)
           THEN ChatMessage(DisplayTime(parts[1]), TrimSuffix(parts[2], Said),
                            parts[3], FALSE)
           ELSE ChatMessage(Now, <<>>, raw, FALSE)

\* The chat frames of spec.md 6: <timestamp>: <username> said: <message> and
\* <timestamp>: <username> privately said: <message>
ChatFrame(ts, u, private, message) ==
  ts \o ColonSpace \o u \o (IF private THEN PrivatelySaid ELSE Said)
     \o ColonSpace \o message

\* Timestamps in a local format: with a date and seconds, with a date, and
\* the time alone
Timestamps ==
  { <<"1", "/", "2", ",", " ", "3", ":", "0", "4", ":", "0", "5", " ", "p", "m">>,
    <<"1", "/", "2", ",", " ", "3", ":", "0", "4">>,
    <<"3", ":", "0", "4">> }

\* Message bodies: plain, with the separator of the frame format in them, and
\* with the words of a join notice in them
Bodies ==
  { <<"x">>, <<"x", " ", "y">>, <<"x", ":", " ", "y">>,
    <<"b">> \o HasJoined, <<"i", "t">> \o HasLeft \o <<"!">>,
    <<"h", "e">> \o Said \o ColonSpace \o <<"x">>, <<"?">> }

\* The client receives a chat frame and parses it
ReceiveChatFrame(ts, u, private, message) ==
  /\ server = "client"
  /\ last' = [ev |-> "parseMessage", conn |-> 0, user |-> u, private |-> private,
              body |-> message,
              message |-> parseMessage(ChatFrame(ts, u, private, message))]
  /\ UNCHANGED <<server, tui, process, pending, listening, departed, readyState, phase, clients,
                 users, rejected, sent, persisted, credentials>>

NextClient ==
  \E ts \in Timestamps, u \in Names \cup {<<"a", "b">>}, private \in BOOLEAN,
     message \in Bodies : ReceiveChatFrame(ts, u, private, message)

InitClient == server = "client" /\ InitCommon
SpecClient == InitClient /\ [][NextClient]_vars

\* C30: for a frame <ts>: <u> said: <body> and for a frame
\* <ts>: <u> privately said: <body>, parseMessage yields a ChatMessage that is
\* not a system message, whose User is u and whose Content is body.
\* parseMessage takes everything before " said" as the user, so the User of a
\* whisper frame is "<u> privately" (part_002:966-1006): violated.
C30_ParseMessageBothFormats ==
  last.ev = "parseMessage" =>
     /\ ~last.message.IsSystem
     /\ last.message.User = last.user
     /\ last.message.Content = last.body

\* C31: a join notice, a leave notice or a chat broadcast is delivered only to
\* connections that have completed the handshake; a connection that awaits
\* its credentials or was rejected gets none.
\* broadcast of server.js sends to every open client of the server, registered
\* or not (lines 82-88): violated.
C31_BroadcastsOnlyToAuthenticated ==
  [][\A d \in Conns : \A i \in 1..Len(sent'[d]) :
       sent'[d][i].kind \in {"join", "leave", "chat"} =>
          phase'[d] = "Authenticated" /\ MapHas(clients', d)]_vars

\* C32: while the server process runs, every entry of the connection to
\* username map belongs to a connection whose close event has not been
\* handled yet.
\* The close handler of the ws.once server deletes the entry only when the
\* username is truthy (part_005:297-309), so the entry of a connection that
\* registered with a blank first frame survives its close: violated.
C32_RegistryHoldsOpenConnections ==
  process # "exited" =>
     \A c \in DOMAIN clients : readyState[c] \in {"OPEN", "CLOSING"}

\* C33: once the SIGINT handler of server.js has sent the shutdown notice, no
\* frame is delivered to any client any more; in particular the close of the
\* connections produces no leave notice for the others.
C33_NothingAfterShutdownNotice ==
  [][(server = "ws" /\ process = "SIGINT") => \A d \in Conns : sent'[d] = <<>>]_vars

\* during the shutdown a session closed while another session was still
\* registered, and its leave notice reached no one
C33_Witness ==
  /\ server = "ws" /\ process = "SIGINT"
  /\ last.ev = "close" /\ last.outcome = "left"
  /\ \E d \in DOMAIN clients : readyState[d] = "CLOSING"
  /\ \A d \in Conns : sent[d] = <<>>

\* C34: no two registered sessions have usernames that are equal when
\* compared without regard to case.
\* The Socket.IO server tests existingUsernames.includes(trimmedUsername),
\* which is an exact comparison (part_005:111-121), and server.js tests
\* nothing (134-137): "a" and "A" are registered side by side: violated.
C34_UsernamesDifferIgnoringCase ==
  \A c1, c2 \in DOMAIN clients :
     LowerText(clients[c1]) = LowerText(clients[c2]) => c1 = c2

(***************************************************************************)
(* connectWebsocket (src/client/chat.go) and the TUI client                *)
(* (src/unnamed/part_002).  A command runs on its own and hands its        *)
(* message to Update; a step is a command finishing and Update handling    *)
(* its message, or Update handling a key.                                  *)
(***************************************************************************)
\* What a call has done: whether the dial opened a connection, whether that
\* connection was closed again, whether a connection is returned, whether an
\* error is returned
Returned(opened, closed, conn, err) ==
  [opened |-> opened, closed |-> closed, conn |-> conn, err |-> err]

\* Mutant of connectWebsocket: a failed send returns the error without closing
\* the connection
connectWebsocketLeaks(dial, encode, send, read, text, message) ==
  IF ~dial THEN Returned(FALSE, FALSE, FALSE, TRUE)
  ELSE IF ~encode THEN Returned(TRUE, TRUE, FALSE, TRUE)
  ELSE IF ~send THEN Returned(TRUE, FALSE, FALSE, TRUE)
  ELSE IF ~read THEN Returned(TRUE, TRUE, FALSE, TRUE)
  ELSE IF text /\ HasErrorPrefix(message) THEN Returned(TRUE, TRUE, FALSE, TRUE)
  ELSE Returned(TRUE, FALSE, TRUE, FALSE)

\* connectWebsocket: dial, json.Marshal, WriteMessage, ReadMessage, the
\* ERROR: test; each argument says whether that call succeeds, text whether
\* the response is a text message, message how it begins
connectWebsocket(dial, encode, send, read, text, message) ==
  IF ~dial THEN Returned(FALSE, FALSE, FALSE, TRUE)
  ELSE IF ~encode THEN Returned(TRUE, TRUE, FALSE, TRUE)
  ELSE IF ~send THEN Returned(TRUE, TRUE, FALSE, TRUE)
  ELSE IF ~read THEN Returned(TRUE, TRUE, FALSE, TRUE)
  ELSE IF text /\ HasErrorPrefix(message) THEN Returned(TRUE, TRUE, FALSE, TRUE)
  ELSE Returned(TRUE, FALSE, TRUE, FALSE)

\* How the response to the credentials may begin
Responses == {Chars("ERROR:"), Chars("Error:"), Chars("Welcome")}

NoResult == Returned(FALSE, FALSE, FALSE, FALSE)

TuiEvent(ev, c, result) == [ev |-> ev, conn |-> c, result |-> result]

\* Everything but the client
ServerVars ==
  <<server, process, readyState, phase, clients, users, rejected, sent, persisted,
    credentials, pending, listening, departed>>

\* case errMsg: back to the login view; m.conn is left as it is
TuiErrMsg(t) == [t EXCEPT !.state = "loginView"]

\* A new connection of the client gets the next unused identity
TuiNextConn(c) ==
  tui.status[c] = "none" /\ \A d \in Conns : d < c => tui.status[d] # "none"

\* KeyEnter in loginView on the Connect button: connectCmd is started
TuiEnterLogin ==
  /\ server = "tui"
  /\ tui.state = "loginView"
  /\ tui' = [tui EXCEPT !.state = "connectingView", !.dials = @ + 1]
  /\ last' = TuiEvent("KeyEnter", 0, NoResult)
  /\ UNCHANGED ServerVars

\* connectCmd finishes: connectedMsg with the connection, or errMsg
TuiConnectCmd(dial, encode, send, read, text, message) ==
  /\ server = "tui"
  /\ tui.state # "quit"
  /\ tui.dials > 0
  /\ LET r == connectWebsocket(dial, encode, send, read, text, message)
         t == [tui EXCEPT !.dials = @ - 1]
     IN  IF r.opened
         THEN \E c \in Conns :
                /\ TuiNextConn(c)
                /\ LET u == [t EXCEPT !.status[c] = IF r.closed THEN "closed" ELSE "open"]
                   IN  tui' = IF r.err THEN TuiErrMsg(u)
                              ELSE [u EXCEPT !.state = "chatView", !.conn = c,
                                             !.reads[c] = @ + 1]
                /\ last' = TuiEvent("connect", c, r)
         ELSE /\ tui' = TuiErrMsg(t)
              /\ last' = TuiEvent("connect", 0, r)
  /\ UNCHANGED ServerVars

\* waitForIncomingMessage(conn) finishes on connection c: wsMsg, after which
\* Update starts the next read on m.conn, or errMsg
TuiRead(c, ok) ==
  /\ server = "tui"
  /\ tui.state # "quit"
  /\ tui.reads[c] > 0
  /\ ok => tui.status[c] = "open"
  /\ LET t == [tui EXCEPT !.reads[c] = @ - 1]
     IN  tui' = IF ok THEN [t EXCEPT !.reads[t.conn] = @ + 1] ELSE TuiErrMsg(t)
  /\ last' = TuiEvent(IF ok THEN "wsMsg" ELSE "errMsg of a read", c, NoResult)
  /\ UNCHANGED ServerVars

\* KeyEnter in chatView with a message typed: sendMessageCmd is started on
\* the connection the model holds
TuiEnterChat ==
  /\ server = "tui"
  /\ tui.state = "chatView"
  /\ tui.conn # 0
  /\ tui.sends[tui.conn] < MaxSends
  /\ tui' = [tui EXCEPT !.sends[tui.conn] = @ + 1]
  /\ last' = TuiEvent("KeyEnter", tui.conn, NoResult)
  /\ UNCHANGED ServerVars

\* sendMessageCmd finishes: nil, or errMsg when WriteMessage failed
TuiSend(c, ok) ==
  /\ server = "tui"
  /\ tui.state # "quit"
  /\ tui.sends[c] > 0
  /\ ok => tui.status[c] = "open"
  /\ LET t == [tui EXCEPT !.sends[c] = @ - 1]
     IN  tui' = IF ok THEN t ELSE TuiErrMsg(t)
  /\ last' = TuiEvent(IF ok THEN "sent" ELSE "errMsg of a send", c, NoResult)
  /\ UNCHANGED ServerVars

\* KeyCtrlC or KeyEsc: m.conn is closed when it is not nil, and the program
\* quits with the commands that were in flight
TuiQuit ==
  /\ server = "tui"
  /\ tui.state # "quit"
  /\ tui' = [state |-> "quit", conn |-> tui.conn, dials |-> 0,
             reads |-> [c \in Conns |-> 0], sends |-> [c \in Conns |-> 0],
             status |-> [c \in Conns |-> IF c = tui.conn THEN "closed" ELSE tui.status[c]]]
  /\ last' = TuiEvent("quit", tui.conn, NoResult)
  /\ UNCHANGED ServerVars

NextTui ==
  \/ TuiEnterLogin
  \/ \E dial, encode, send, read, text \in BOOLEAN, message \in Responses :
        TuiConnectCmd(dial, encode, send, read, text, message)
  \/ \E c \in Conns, ok \in BOOLEAN : TuiRead(c, ok)
  \/ TuiEnterChat
  \/ \E c \in Conns, ok \in BOOLEAN : TuiSend(c, ok)
  \/ TuiQuit

InitTui == server = "tui" /\ InitCommon
SpecTui == InitTui /\ [][NextTui]_vars

\* The connections the client has opened and not closed
TuiOpen == {c \in Conns : tui.status[c] = "open"}

\* C38: when connectWebsocket returns an error after its dial had succeeded,
\* it has closed the connection; it returns a connection only together with
\* no error, and that connection is open.
C38_ConnectWebsocketNeverLeaks ==
  last.ev = "connect" =>
     /\ (last.result.opened /\ last.result.err) => last.result.closed
     /\ last.result.conn <=> ~last.result.err
     /\ last.result.conn => last.result.opened /\ ~last.result.closed
     /\ (last.result.err /\ last.conn # 0) => tui.status[last.conn] = "closed"

\* a call whose dial had succeeded returned an error, while an earlier
\* connection of the client is open
C38_Witness ==
  /\ last.ev = "connect" /\ last.result.opened /\ last.result.err
  /\ tui.status[last.conn] = "closed"
  /\ TuiOpen # {}

\* C35: at most one read command is pending on a connection of the client.
\* After a send error the read on the old connection stays pending; when it
\* delivers a message after the reconnect, the wsMsg case starts the next
\* read on m.conn, the new connection, which has its own read pending
\* (part_002:308-346): violated.
C35_OneReadPerConnection ==
  \A c \in Conns : tui.reads[c] <= 1

\* C36: the client has at most one connection that is open or being opened.
\* The errMsg case returns to the login view without closing m.conn
\* (part_002:308-312), so the next connect starts while the old connection
\* is open: violated.
C36_OneConnectionAtATime ==
  tui.dials + Cardinality(TuiOpen) <= 1

\* C37: in the login view the client holds no open connection.
\* The errMsg case sets the view and leaves m.conn open (part_002:308-312):
\* violated.
C37_LoginViewHoldsNoConnection ==
  tui.state = "loginView" => TuiOpen = {}

\* C39: a chat broadcast frame <ts>: <u> said: <body> is parsed as a message
\* of u that is not a system message, whatever the body, the bodies that
\* contain " has joined" or " has left" included.
\* parseMessage tests strings.Contains(raw, " has joined") and " has left" on
\* the whole frame before it looks for the chat format (part_002:947-964):
\* violated.
C39_ChatFrameIsNeverANotice ==
  (last.ev = "parseMessage" /\ ~last.private) =>
     /\ ~last.message.IsSystem
     /\ last.message.User = last.user
     /\ last.message.Content = last.body

====
